---- MODULE Spec2Model ----
(***************************************************************************)
(* Opinion dynamics simulation (js/agent.js, js/simulation.js): a          *)
(* population of agents with beliefs in [-1, 1] on a network built with a  *)
(* homophily bias, stepped one pairwise interaction at a time.             *)
(*                                                                         *)
(* Beliefs are exact rationals: a belief is an integer numerator over the  *)
(* common denominator DEN.  Ids are 0-based as in the code; agent id sits  *)
(* at position id + 1 of the sequence agents.  A JavaScript null is the    *)
(* empty sequence <<>>; an object that may be null is a sequence of        *)
(* length 0 or 1.                                                          *)
(*                                                                         *)
(* held is the record that the first interaction of the current run        *)
(* returned, as a caller that kept it reads it now: the record references  *)
(* objects of the simulation, so what it reads follows their mutation.     *)
(*                                                                         *)
(* driver is the state of the page script (js/main.js): its variables, the *)
(* disabled flags of the Start and Stop buttons and the pending timers.    *)
(***************************************************************************)
EXTENDS Integers, Sequences, FiniteSets, TLC

VARIABLES config, agents, isRunning, isComplete, interactionCount,
          opinionCounts, opinionHistory, currentPairing,
          result, notifications, lastOp, branch, threw, runs, held, driver

vars == <<config, agents, isRunning, isComplete, interactionCount,
          opinionCounts, opinionHistory, currentPairing,
          result, notifications, lastOp, branch, threw, runs, held, driver>>

----------------------------------------------------------------------------
(* Bounds of the model *)

\* largest maxInteractions a configuration asks for
MaxM == 2

\* Math.random() returns one of 0/RandomGrid .. (RandomGrid-1)/RandomGrid
RandomGrid == 2

\* number of initialize calls in one behaviour
MaxRuns == 2

\* maxInteractions of the long run of two zealots, past ProgressPeriod
LongM == 100

\* population sizes of the configurations; 0 is accepted by initialize
PopulationSizes == {0, 1, 2, 3}

\* an agent has at most 3 neighbours and at most populationSize - 1
MaxDegree == IF \A n \in PopulationSizes : n <= 3 THEN 2 ELSE 3

(* Program constants *)
RED == "red"
BLUE == "blue"

maxAttempts == 50
DefaultMaxInteractions == 5000
HistoryPeriod == 10
HistoryCap == 1000
ProgressPeriod == 50
DirectAttempts == 5
IndirectAttempts == 3
\* percentages: 0.3, 0.5 and 1.0 in the code
PreferIndirectPct == 30
DefaultHomophilyPct == 50
PreferSamePct == 50
ZealotInfluencePct == 100
\* 0.1 in influenceStrength is 1 / InfluenceDiv
InfluenceDiv == 10

----------------------------------------------------------------------------
(* Arithmetic *)

RECURSIVE Pow(_, _)
Pow(b, e) == IF e = 0 THEN 1 ELSE b * Pow(b, e - 1)

\* One belief update divides by InfluenceDiv * (number of neighbours), and a
\* step makes two updates, the second reading the result of the first.
\* Every divisor divides UpdateDiv (20 with at most 2 neighbours, 60 with
\* 3), so every belief of a run of at most MaxM steps is a multiple of 1/DEN.
UpdateDiv == InfluenceDiv * (IF MaxDegree = 2 THEN 2 ELSE 6)
DEN == RandomGrid * Pow(UpdateDiv * UpdateDiv, MaxM)

Abs(x) == IF x < 0 THEN 0 - x ELSE x
Sign(x) == IF x > 0 THEN 1 ELSE IF x < 0 THEN 0 - 1 ELSE 0
Min(a, b) == IF a < b THEN a ELSE b
Max(a, b) == IF a > b THEN a ELSE b

\* Math.round(num / den) for num >= 0, den > 0 (halves round up)
Round(num, den) == (2 * num + den) \div (2 * den)

\* Math.random() < pct / 100 when the draw is r / RandomGrid
RandomLess(r, pct) == r * 100 < pct * RandomGrid

RandomDraws == 0 .. (RandomGrid - 1)

\* The values of Math.random() from which a belief is drawn, in units of
\* 1/DEN: the grid, and 0.05, a value within the reach (0.1) of one update
BeliefDraws ==
    {r * (DEN \div RandomGrid) : r \in RandomDraws} \cup {DEN \div (2 * InfluenceDiv)}

InSeq(x, s) == \E i \in 1 .. Len(s) : s[i] = x

\* array.filter(pred).map(a => a.id) over the agent list, in list order
RECURSIVE IdsWithOpinion(_, _, _)

Opinion(beliefValue) == IF beliefValue < 0 THEN RED ELSE BLUE

IdsWithOpinion(ags, op, k) ==
    IF k > Len(ags) THEN <<>>
    ELSE IF Opinion(ags[k].beliefValue) = op
         THEN <<ags[k].id>> \o IdsWithOpinion(ags, op, k + 1)
         ELSE IdsWithOpinion(ags, op, k + 1)

----------------------------------------------------------------------------
(* Agent *)

NewAgent(beliefValue, isZealot, id) ==
    [beliefValue |-> beliefValue, isZealot |-> isZealot, id |-> id,
     neighbors |-> <<>>, interactionHistory |-> <<>>,
     currentPairingId |-> <<>>, isInPairing |-> FALSE]

\* agentMap.get(id): the agent with that id, as a sequence of length 0 or 1
AgentById(ags, id) ==
    IF \E k \in 1 .. Len(ags) : ags[k].id = id
    THEN <<ags[CHOOSE k \in 1 .. Len(ags) : ags[k].id = id]>>
    ELSE <<>>

\* agents.findIndex(a => a.id === id), 0-based, -1 when absent
FindIndex(ags, id) ==
    IF \E k \in 1 .. Len(ags) : ags[k].id = id
    THEN (CHOOSE k \in 1 .. Len(ags) :
             ags[k].id = id /\ \A j \in 1 .. (k - 1) : ags[j].id # id) - 1
    ELSE 0 - 1

----------------------------------------------------------------------------
(* setupNetworkWithHomophily *)

\* config.homophily || 0.5
Homophily(cfg) == IF cfg.homophily = 0 THEN DefaultHomophilyPct ELSE cfg.homophily

\* line 446: push unless undefined, self or already chosen
AddNeighbor(neighbors, neighborId, agentId) ==
    IF neighborId # agentId /\ ~InSeq(neighborId, neighbors)
    THEN Append(neighbors, neighborId)
    ELSE neighbors

\* mutant: a pass that seeks the opposite opinion in a population without
\* it takes a same-opinion agent instead
AttemptOutcomesSubstitutes(agentId, myOpinion, neighbors, redAgentIds, blueAgentIds, h, r) ==
    LET targetSameOpinion == RandomLess(r, h)
        samePool == IF myOpinion = RED THEN redAgentIds ELSE blueAgentIds
        oppPool == IF myOpinion = RED THEN blueAgentIds ELSE redAgentIds
    IN  IF targetSameOpinion
        THEN IF Len(samePool) > 1
             THEN {AddNeighbor(neighbors, samePool[i], agentId) :
                     i \in {j \in 1 .. Len(samePool) :
                               ~(samePool[j] = agentId \/ InSeq(samePool[j], neighbors))}}
             ELSE {neighbors}
        ELSE IF Len(oppPool) > 0
             THEN {IF InSeq(oppPool[i], neighbors)
                   THEN neighbors
                   ELSE AddNeighbor(neighbors, oppPool[i], agentId) :
                     i \in 1 .. Len(oppPool)}
             ELSE {AddNeighbor(neighbors, samePool[i], agentId) : i \in 1 .. Len(samePool)}

\* One pass of the while body for the draw r of Math.random() < homophily:
\* the neighbour lists it can leave.  The do-while of the same-opinion side
\* redraws until it meets an agent that is neither self nor chosen; when no
\* such agent exists it never leaves, and the pass has no outcome.
AttemptOutcomes(agentId, myOpinion, neighbors, redAgentIds, blueAgentIds, h, r) ==
    LET targetSameOpinion == RandomLess(r, h)
        samePool == IF myOpinion = RED THEN redAgentIds ELSE blueAgentIds
        oppPool == IF myOpinion = RED THEN blueAgentIds ELSE redAgentIds
    IN  IF targetSameOpinion
        THEN IF Len(samePool) > 1
             THEN {AddNeighbor(neighbors, samePool[i], agentId) :
                     i \in {j \in 1 .. Len(samePool) :
                               ~(samePool[j] = agentId \/ InSeq(samePool[j], neighbors))}}
             ELSE {neighbors}
        ELSE IF Len(oppPool) > 0
             THEN {IF InSeq(oppPool[i], neighbors)
                   THEN neighbors
                   ELSE AddNeighbor(neighbors, oppPool[i], agentId) :
                     i \in 1 .. Len(oppPool)}
             ELSE {neighbors}

AttemptResults(agentId, myOpinion, neighbors, redAgentIds, blueAgentIds, h) ==
    UNION {AttemptOutcomes(agentId, myOpinion, neighbors, redAgentIds, blueAgentIds, h, r) :
             r \in RandomDraws}

\* The while loop: the lists it can end with.  open holds the lists still
\* short of connectionCount after `attempts` passes, closed the full ones.
\* When a pass changes neither set, the remaining passes change nothing.
RECURSIVE RetryLoop(_, _, _, _, _, _, _, _, _)
RetryLoop(agentId, myOpinion, redAgentIds, blueAgentIds, h, connectionCount, open, closed, attempts) ==
    IF attempts >= maxAttempts \/ open = {}
    THEN open \cup closed
    ELSE LET next == UNION {AttemptResults(agentId, myOpinion, l, redAgentIds,
                                           blueAgentIds, h) : l \in open}
             nextOpen == {l \in next : Len(l) < connectionCount}
             nextClosed == closed \cup {l \in next : Len(l) >= connectionCount}
         IN  IF nextOpen = open /\ nextClosed = closed
             THEN open \cup closed
             ELSE RetryLoop(agentId, myOpinion, redAgentIds, blueAgentIds, h,
                            connectionCount, nextOpen, nextClosed, attempts + 1)

\* lines 416-421: the do-while of a pass that seeks the same opinion never
\* leaves when every agent of the pool is self or already chosen; the pass
\* makes no progress and `attempts` is not counted again
DoWhileSpins(agentId, myOpinion, neighbors, redAgentIds, blueAgentIds, h, r) ==
    LET samePool == IF myOpinion = RED THEN redAgentIds ELSE blueAgentIds
    IN  /\ RandomLess(r, h)
        /\ Len(samePool) > 1
        /\ \A j \in 1 .. Len(samePool) :
              samePool[j] = agentId \/ InSeq(samePool[j], neighbors)

\* the while loop can enter a do-while that never leaves: some list still
\* short of connectionCount after `attempts` passes meets such a draw
RECURSIVE RetrySpins(_, _, _, _, _, _, _, _)
RetrySpins(agentId, myOpinion, redAgentIds, blueAgentIds, h, connectionCount, open, attempts) ==
    IF attempts >= maxAttempts \/ open = {}
    THEN FALSE
    ELSE \/ \E l \in open, r \in RandomDraws :
              DoWhileSpins(agentId, myOpinion, l, redAgentIds, blueAgentIds, h, r)
         \/ LET next == UNION {AttemptResults(agentId, myOpinion, l, redAgentIds,
                                              blueAgentIds, h) : l \in open}
                nextOpen == {l \in next : Len(l) < connectionCount}
            IN  /\ nextOpen # open
                /\ RetrySpins(agentId, myOpinion, redAgentIds, blueAgentIds, h,
                              connectionCount, nextOpen, attempts + 1)

\* first id of the list that is not agentId, as a list of length 0 or 1
FirstOther(ids, agentId) ==
    IF \E i \in 1 .. Len(ids) : ids[i] # agentId
    THEN <<ids[CHOOSE i \in 1 .. Len(ids) :
                 ids[i] # agentId /\ \A j \in 1 .. (i - 1) : ids[j] = agentId]>>
    ELSE <<>>

\* mutant: the forced connection is made to the own opinion only
FallbackSameOnly(agentId, myOpinion, neighbors, redAgentIds, blueAgentIds, h) ==
    LET samePool == IF myOpinion = RED THEN redAgentIds ELSE blueAgentIds
    IN  IF Len(neighbors) # 0 THEN neighbors ELSE FirstOther(samePool, agentId)

\* mutant: an agent left without neighbours stays without
FallbackNone(agentId, myOpinion, neighbors, redAgentIds, blueAgentIds, h) ==
    neighbors

\* lines 453-491: the forced connection of an agent left without neighbours
Fallback(agentId, myOpinion, neighbors, redAgentIds, blueAgentIds, h) ==
    LET samePool == IF myOpinion = RED THEN redAgentIds ELSE blueAgentIds
        oppPool == IF myOpinion = RED THEN blueAgentIds ELSE redAgentIds
        preferSameOpinion == h >= PreferSamePct
    IN  IF Len(neighbors) # 0 THEN neighbors
        ELSE IF preferSameOpinion
             THEN IF FirstOther(samePool, agentId) # <<>>
                  THEN FirstOther(samePool, agentId)
                  ELSE IF Len(oppPool) > 0 THEN <<oppPool[1]>> ELSE <<>>
             ELSE IF Len(oppPool) > 0
                  THEN <<oppPool[1]>>
                  ELSE FirstOther(samePool, agentId)

\* mutant: connectionCount is drawn from 1 .. 4
NeighborListsUpToFour(agentId, myOpinion, redAgentIds, blueAgentIds, h) ==
    UNION {{Fallback(agentId, myOpinion, l, redAgentIds, blueAgentIds, h) :
              l \in RetryLoop(agentId, myOpinion, redAgentIds, blueAgentIds, h,
                              connectionCount, {<<>>}, {}, 0)} :
           connectionCount \in 1 .. 4}

\* the neighbour lists the builder can give one agent
NeighborLists(agentId, myOpinion, redAgentIds, blueAgentIds, h) ==
    UNION {{Fallback(agentId, myOpinion, l, redAgentIds, blueAgentIds, h) :
              l \in RetryLoop(agentId, myOpinion, redAgentIds, blueAgentIds, h,
                              connectionCount, {<<>>}, {}, 0)} :
           connectionCount \in 1 .. 3}

\* the networks the builder can give the agents at positions 1 .. k: one
\* list per agent, each chosen on its own; nothing is added to the
\* partner's list
RECURSIVE NetworksUpTo(_, _, _, _, _)
NetworksUpTo(ags, redAgentIds, blueAgentIds, h, k) ==
    IF k = 0 THEN {<<>>}
    ELSE LET lists == NeighborLists(ags[k].id, Opinion(ags[k].beliefValue),
                                    redAgentIds, blueAgentIds, h)
             before == NetworksUpTo(ags, redAgentIds, blueAgentIds, h, k - 1)
         IN  {Append(nb, l) : nb \in before, l \in lists}

\* setupNetworkWithHomophily can fail to return for the population ags
setupNetworkSpins(ags, cfg) ==
    \E k \in 1 .. Len(ags), connectionCount \in 1 .. 3 :
        RetrySpins(ags[k].id, Opinion(ags[k].beliefValue),
                   IdsWithOpinion(ags, RED, 1), IdsWithOpinion(ags, BLUE, 1),
                   Homophily(cfg), connectionCount, {<<>>}, 0)

\* the populations setupNetworkWithHomophily can leave
setupNetworkWithHomophily(ags, cfg) ==
    {[k \in 1 .. Len(ags) |-> [ags[k] EXCEPT !.neighbors = nb[k]]] :
        nb \in NetworksUpTo(ags, IdsWithOpinion(ags, RED, 1), IdsWithOpinion(ags, BLUE, 1),
                            Homophily(cfg), Len(ags))}

----------------------------------------------------------------------------
(* Counts and history *)

CountOpinion(ags, op) ==
    Cardinality({k \in 1 .. Len(ags) : Opinion(ags[k].beliefValue) = op})

\* mutant: blue is counted as beliefValue > 0
updateOpinionCountsStrict(ags) ==
    [red |-> CountOpinion(ags, RED),
     blue |-> Cardinality({k \in 1 .. Len(ags) : ags[k].beliefValue > 0})]

updateOpinionCounts(ags) ==
    [red |-> CountOpinion(ags, RED), blue |-> CountOpinion(ags, BLUE)]

\* mutant: a full history keeps its oldest entries and drops the new one
recordOpinionStateKeepsOldest(history, count, counts, totalAgents) ==
    LET pushed == Append(history,
                         [interactionCount |-> count,
                          redCount |-> counts.red,
                          blueCount |-> counts.blue,
                          redProportion |-> <<counts.red, totalAgents>>,
                          blueProportion |-> <<counts.blue, totalAgents>>])
    IN  IF Len(pushed) > HistoryCap
        THEN SubSeq(pushed, 1, HistoryCap)
        ELSE pushed

\* a proportion count / totalAgents is kept as the pair <<count, totalAgents>>
recordOpinionState(history, count, counts, totalAgents) ==
    LET pushed == Append(history,
                         [interactionCount |-> count,
                          redCount |-> counts.red,
                          blueCount |-> counts.blue,
                          redProportion |-> <<counts.red, totalAgents>>,
                          blueProportion |-> <<counts.blue, totalAgents>>])
    IN  IF Len(pushed) > HistoryCap
        THEN SubSeq(pushed, Len(pushed) - HistoryCap + 1, Len(pushed))
        ELSE pushed

\* mutant: the configured cap is ignored
MaxInteractionsDefault(cfg) ==
    DefaultMaxInteractions

\* config.maxInteractions || 5000
MaxInteractions(cfg) ==
    IF cfg.maxInteractions = 0 THEN DefaultMaxInteractions ELSE cfg.maxInteractions

\* mutant: the cap is tested with > instead of >=
checkCompletionConditionsLate(complete, counts, count, cfg) ==
    IF counts.red = 0 \/ counts.blue = 0 THEN TRUE
    ELSE IF count > MaxInteractions(cfg) THEN TRUE
    ELSE complete

\* mutant: dominance is both counts being zero (&& for ||)
checkCompletionConditionsBoth(complete, counts, count, cfg) ==
    IF counts.red = 0 /\ counts.blue = 0 THEN TRUE
    ELSE IF count >= MaxInteractions(cfg) THEN TRUE
    ELSE complete

\* the value of isComplete after checkCompletionConditions
checkCompletionConditions(complete, counts, count, cfg) ==
    IF counts.red = 0 \/ counts.blue = 0 THEN TRUE
    ELSE IF count >= MaxInteractions(cfg) THEN TRUE
    ELSE complete

----------------------------------------------------------------------------
(* Agent.calculateSusceptibility, Agent.updateBelief *)

\* mutant: an agent without neighbours is fully susceptible
calculateSusceptibilityLonely(self, ags) ==
    IF Len(self.neighbors) = 0 THEN <<1, 1>>
    ELSE <<Cardinality({n \in 1 .. Len(self.neighbors) :
                /\ AgentById(ags, self.neighbors[n]) # <<>>
                /\ Opinion(AgentById(ags, self.neighbors[n])[1].beliefValue)
                     # Opinion(self.beliefValue)}),
           Len(self.neighbors)>>

\* the fraction opposing / neighbours as <<opposing, neighbours>>; <<0, 1>> is 0
calculateSusceptibility(self, ags) ==
    IF Len(self.neighbors) = 0 THEN <<0, 1>>
    ELSE <<Cardinality({n \in 1 .. Len(self.neighbors) :
                /\ AgentById(ags, self.neighbors[n]) # <<>>
                /\ Opinion(AgentById(ags, self.neighbors[n])[1].beliefValue)
                     # Opinion(self.beliefValue)}),
           Len(self.neighbors)>>

Clamp(x) == Max(0 - DEN, Min(DEN, x))

\* mutant: the factor (1 - |other.beliefValue|) is left out
InfluenceStrengthFull(susceptibility, otherBelief) ==
    (susceptibility[1] * DEN) \div (InfluenceDiv * susceptibility[2])

\* 0.1 * susceptibility * (1 - |other.beliefValue|), in units of 1/DEN
InfluenceStrength(susceptibility, otherBelief) ==
    (susceptibility[1] * (DEN - Abs(otherBelief))) \div (InfluenceDiv * susceptibility[2])

\* mutant: the zealot's belief is added to the agent's (+= for =)
NewBeliefAdds(self, other, ags, r) ==
    IF other.isZealot
    THEN IF RandomLess(r, ZealotInfluencePct)
         THEN self.beliefValue + other.beliefValue
         ELSE self.beliefValue
    ELSE LET susceptibility == calculateSusceptibility(self, ags)
             influenceStrength == InfluenceStrength(susceptibility, other.beliefValue)
             direction == Sign(other.beliefValue - self.beliefValue)
         IN  Clamp(self.beliefValue + direction * influenceStrength)

\* mutant: the agent moves half way to the zealot's belief
NewBeliefBlends(self, other, ags, r) ==
    IF other.isZealot
    THEN IF RandomLess(r, ZealotInfluencePct)
         THEN (self.beliefValue + other.beliefValue) \div 2
         ELSE self.beliefValue
    ELSE LET susceptibility == calculateSusceptibility(self, ags)
             influenceStrength == InfluenceStrength(susceptibility, other.beliefValue)
             direction == Sign(other.beliefValue - self.beliefValue)
         IN  Clamp(self.beliefValue + direction * influenceStrength)

\* the belief a non-zealot has after updateBelief; r is the draw of line 92
NewBelief(self, other, ags, r) ==
    IF other.isZealot
    THEN IF RandomLess(r, ZealotInfluencePct) THEN other.beliefValue ELSE self.beliefValue
    ELSE LET susceptibility == calculateSusceptibility(self, ags)
             influenceStrength == InfluenceStrength(susceptibility, other.beliefValue)
             direction == Sign(other.beliefValue - self.beliefValue)
         IN  Clamp(self.beliefValue + direction * influenceStrength)

\* mutant: no early return for a zealot
updateBeliefNoZealotGuard(self, other, ags, r) ==
    LET recorded == [self EXCEPT !.interactionHistory =
                        Append(@, [agentId |-> other.id,
                                   otherBelief |-> other.beliefValue,
                                   myBeliefBefore |-> self.beliefValue])]
        b == NewBelief(self, other, ags, r)
    IN  [agent |-> [recorded EXCEPT !.beliefValue = b],
         changed |-> Opinion(b) # Opinion(self.beliefValue)]

\* mutant: the original opinion is read after the belief was written
updateBeliefStaleOpinion(self, other, ags, r) ==
    LET recorded == [self EXCEPT !.interactionHistory =
                        Append(@, [agentId |-> other.id,
                                   otherBelief |-> other.beliefValue,
                                   myBeliefBefore |-> self.beliefValue])]
    IN  IF self.isZealot
        THEN [agent |-> recorded, changed |-> FALSE]
        ELSE LET b == NewBelief(self, other, ags, r)
             IN  [agent |-> [recorded EXCEPT !.beliefValue = b],
                  changed |-> Opinion(b) # Opinion(b)]

\* the timestamp of a history record is left out
updateBelief(self, other, ags, r) ==
    LET recorded == [self EXCEPT !.interactionHistory =
                        Append(@, [agentId |-> other.id,
                                   otherBelief |-> other.beliefValue,
                                   myBeliefBefore |-> self.beliefValue])]
    IN  IF self.isZealot
        THEN [agent |-> recorded, changed |-> FALSE]
        ELSE LET b == NewBelief(self, other, ags, r)
             IN  [agent |-> [recorded EXCEPT !.beliefValue = b],
                  changed |-> Opinion(b) # Opinion(self.beliefValue)]

\* Math.random() is called only for a non-zealot meeting a zealot
DrawsFor(self, other) ==
    IF ~self.isZealot /\ other.isZealot THEN RandomDraws ELSE {0}

----------------------------------------------------------------------------
(* findReachableAgents: breadth-first search from startAgentId *)

\* mutant: the path to a neighbour extends the start's path, not the
\* current agent's
RECURSIVE VisitNeighborsFromStart(_, _, _, _)
VisitNeighborsFromStart(nbrs, k, currentId, st) ==
    IF k > Len(nbrs) THEN st
    ELSE IF InSeq(nbrs[k], st.visited)
         THEN VisitNeighborsFromStart(nbrs, k + 1, currentId, st)
         ELSE VisitNeighborsFromStart(nbrs, k + 1, currentId,
                 [queue |-> Append(st.queue, nbrs[k]),
                  visited |-> Append(st.visited, nbrs[k]),
                  paths |-> (nbrs[k] :> Append(st.paths[st.visited[1]], nbrs[k])) @@ st.paths])

RECURSIVE VisitNeighbors(_, _, _, _)
VisitNeighbors(nbrs, k, currentId, st) ==
    IF k > Len(nbrs) THEN st
    ELSE IF InSeq(nbrs[k], st.visited)
         THEN VisitNeighbors(nbrs, k + 1, currentId, st)
         ELSE VisitNeighbors(nbrs, k + 1, currentId,
                 [queue |-> Append(st.queue, nbrs[k]),
                  visited |-> Append(st.visited, nbrs[k]),
                  paths |-> (nbrs[k] :> Append(st.paths[currentId], nbrs[k])) @@ st.paths])

RECURSIVE SearchLoop(_, _)
SearchLoop(ags, st) ==
    IF st.queue = <<>> THEN st
    ELSE LET currentId == Head(st.queue)
             rest == [st EXCEPT !.queue = Tail(st.queue)]
             currentAgent == AgentById(ags, currentId)
         IN  IF currentAgent = <<>>
             THEN SearchLoop(ags, rest)
             ELSE SearchLoop(ags, VisitNeighbors(currentAgent[1].neighbors, 1, currentId, rest))

findReachableAgents(ags, startAgentId) ==
    LET st == SearchLoop(ags, [queue |-> <<startAgentId>>,
                               visited |-> <<startAgentId>>,
                               paths |-> (startAgentId :> <<startAgentId>>)])
    IN  [reachableAgents |-> st.visited, paths |-> st.paths]

----------------------------------------------------------------------------
(* findConnectedAgentPair *)

NoPair == [agent1Index |-> 0 - 1, agent2Index |-> 0 - 1, path |-> <<>>, branch |-> "none"]

\* one direct pick that returns: a random agent and a random entry of its
\* neighbour list, found in the agent list
DirectPicks(ags, tag) ==
    {pick \in UNION {{[agent1Index |-> i,
                       agent2Index |-> FindIndex(ags, ags[i + 1].neighbors[n]),
                       path |-> <<ags[i + 1].id, ags[i + 1].neighbors[n]>>,
                       branch |-> tag] : n \in 1 .. Len(ags[i + 1].neighbors)} :
                     i \in 0 .. (Len(ags) - 1)} :
        pick.agent2Index # 0 - 1}

\* a direct pick can come back empty-handed
DirectCanFail(ags) ==
    \E i \in 0 .. (Len(ags) - 1) :
        \/ Len(ags[i + 1].neighbors) = 0
        \/ \E n \in 1 .. Len(ags[i + 1].neighbors) :
              FindIndex(ags, ags[i + 1].neighbors[n]) = 0 - 1

\* ids whose recorded path has more than 2 nodes
IndirectIds(search, startId) ==
    {id \in DOMAIN search.paths : Len(search.paths[id]) > 2 /\ id # startId}

\* the any-reachable fallback is reached from start index i
ReachesFallback(ags, search, startId) ==
    \/ IndirectIds(search, startId) = {}
    \/ \E id \in IndirectIds(search, startId) : FindIndex(ags, id) = 0 - 1

\* mutant: the any-reachable fallback is drawn from although agents more
\* than one hop away were found
IndirectPicksFromAnyReachable(ags, i) ==
    LET startId == ags[i + 1].id
        search == findReachableAgents(ags, startId)
        reachable == search.reachableAgents
    IN  IF Len(reachable) > 1
        THEN {pick \in {[agent1Index |-> i,
                         agent2Index |-> FindIndex(ags, id),
                         path |-> search.paths[id],
                         branch |-> "indirect"] : id \in IndirectIds(search, startId)} :
                pick.agent2Index # 0 - 1}
             \cup
             {pick \in {[agent1Index |-> i,
                         agent2Index |-> FindIndex(ags, reachable[reachableIndex + 1]),
                         path |-> search.paths[reachable[reachableIndex + 1]],
                         branch |-> "fallback"] :
                           reachableIndex \in 1 .. (Len(reachable) - 1)} :
                pick.agent2Index # 0 - 1}
        ELSE {}

\* mutant: the fallback index is drawn from 0, so the start itself can be drawn
IndirectPicksFromAnyIndex(ags, i) ==
    LET startId == ags[i + 1].id
        search == findReachableAgents(ags, startId)
        reachable == search.reachableAgents
    IN  IF Len(reachable) > 1
        THEN {pick \in {[agent1Index |-> i,
                         agent2Index |-> FindIndex(ags, id),
                         path |-> search.paths[id],
                         branch |-> "indirect"] : id \in IndirectIds(search, startId)} :
                pick.agent2Index # 0 - 1}
             \cup
             (IF ReachesFallback(ags, search, startId)
              THEN {pick \in {[agent1Index |-> i,
                               agent2Index |-> FindIndex(ags, reachable[reachableIndex + 1]),
                               path |-> search.paths[reachable[reachableIndex + 1]],
                               branch |-> "fallback"] :
                                 reachableIndex \in 0 .. (Len(reachable) - 1)} :
                      pick.agent2Index # 0 - 1}
              ELSE {})
        ELSE {}

\* one pass of the search loop that returns, from start index i
IndirectPicksFrom(ags, i) ==
    LET startId == ags[i + 1].id
        search == findReachableAgents(ags, startId)
        reachable == search.reachableAgents
    IN  IF Len(reachable) > 1
        THEN {pick \in {[agent1Index |-> i,
                         agent2Index |-> FindIndex(ags, id),
                         path |-> search.paths[id],
                         branch |-> "indirect"] : id \in IndirectIds(search, startId)} :
                pick.agent2Index # 0 - 1}
             \cup
             (IF ReachesFallback(ags, search, startId)
              THEN {pick \in {[agent1Index |-> i,
                               agent2Index |-> FindIndex(ags, reachable[reachableIndex + 1]),
                               path |-> search.paths[reachable[reachableIndex + 1]],
                               branch |-> "fallback"] :
                                 reachableIndex \in 1 .. (Len(reachable) - 1)} :
                      pick.agent2Index # 0 - 1}
              ELSE {})
        ELSE {}

IndirectCanFailFrom(ags, i) ==
    LET startId == ags[i + 1].id
        search == findReachableAgents(ags, startId)
        reachable == search.reachableAgents
    IN  \/ Len(reachable) <= 1
        \/ /\ ReachesFallback(ags, search, startId)
           /\ \E reachableIndex \in 1 .. (Len(reachable) - 1) :
                 FindIndex(ags, reachable[reachableIndex + 1]) = 0 - 1

\* every record findConnectedAgentPair can return on a non-empty population;
\* a loop of bounded passes falls through when one pass can fail, since the
\* same draw can repeat
findConnectedAgentPair(ags) ==
    LET canPreferIndirect == \E r \in RandomDraws : RandomLess(r, PreferIndirectPct)
        canPreferDirect == \E r \in RandomDraws : ~RandomLess(r, PreferIndirectPct)
        reachSearch == canPreferIndirect \/ (canPreferDirect /\ DirectCanFail(ags))
        reachRetry == reachSearch /\ \E i \in 0 .. (Len(ags) - 1) : IndirectCanFailFrom(ags, i)
    IN  (IF canPreferDirect /\ DirectAttempts > 0 THEN DirectPicks(ags, "direct") ELSE {})
        \cup
        (IF reachSearch /\ IndirectAttempts > 0
         THEN UNION {IndirectPicksFrom(ags, i) : i \in 0 .. (Len(ags) - 1)}
         ELSE {})
        \cup
        (IF reachRetry THEN DirectPicks(ags, "retry") ELSE {})
        \cup
        (IF reachRetry /\ DirectCanFail(ags) THEN {NoPair} ELSE {})

----------------------------------------------------------------------------
(* The simulation object *)

\* a red and a blue zealot, whose beliefs no interaction changes, run for
\* LongM interactions
LongConfig ==
    [populationSize |-> 2, redProportion |-> 50, redZealotFraction |-> 100, blueZealotFraction |-> 100, homophily |-> DefaultHomophilyPct, maxInteractions |-> LongM]

\* configurations handed to the constructor; fractions are percentages.
\* The populations of 3 agents, whose networks are many, are three: two
\* drawn beliefs on the red side and a blue zealot under full homophily,
\* run for up to two interactions; a red zealot and two drawn beliefs on
\* the blue side under the default homophily, run for one; and a red
\* zealot, a blue zealot and one drawn belief on the blue side under full
\* homophily, run for up to two.  The constructor
\* and initialize take a populationSize of 0 as they take any other.
\* LongConfig is the one run long enough for the periodic snapshots and
\* the progress notification.
Configs ==
    {cfg \in [populationSize : PopulationSizes,
              redProportion : {0, 33, 50, 100},
              redZealotFraction : {0, 50, 100},
              blueZealotFraction : {0, 50, 100},
              homophily : {0, 50, 100},
              maxInteractions : 1 .. MaxM] :
        /\ cfg.populationSize = 0 =>
              /\ cfg.maxInteractions = 1
              /\ cfg.redProportion = 50
              /\ cfg.redZealotFraction = 0
              /\ cfg.blueZealotFraction = 0
              /\ cfg.homophily = DefaultHomophilyPct
        /\ cfg.populationSize \in {1, 2} => cfg.redProportion # 33
        /\ cfg.populationSize >= 3 =>
              /\ \/ cfg.maxInteractions = 1
                 \/ cfg.maxInteractions = 2 /\ cfg.homophily = 100
              /\ \/ /\ cfg.redProportion = 50
                    /\ cfg.redZealotFraction = 0
                    /\ cfg.blueZealotFraction = 100
                    /\ cfg.homophily = 100
                 \/ /\ cfg.redProportion = 33
                    /\ cfg.redZealotFraction = 100
                    /\ cfg.blueZealotFraction = 0
                    /\ cfg.homophily = 0
                 \/ /\ cfg.redProportion = 33
                    /\ cfg.redZealotFraction = 100
                    /\ cfg.blueZealotFraction = 50
                    /\ cfg.homophily = 100}
    \cup {LongConfig}

\* main.js 134-142: redProportion 0.5 (line 31), both zealot sliders at 0,
\* homophily 0.5 and the fixed maxInteractions 10000
DriverConfig ==
    [populationSize |-> 2, redProportion |-> 50, redZealotFraction |-> 0,
     blueZealotFraction |-> 0, homophily |-> 50, maxInteractions |-> 10000]

\* main.js 97-103 and the button attributes of the page: no simulation,
\* not running, no stop requested, no timer, Stop disabled
PageLoaded ==
    [simulation |-> FALSE, isRunning |-> FALSE, stopRequested |-> FALSE,
     nextInteractionTimeout |-> 0, startDisabled |-> FALSE, stopDisabled |-> TRUE,
     timers |-> {}, nextId |-> 1, event |-> "load", clicked |-> FALSE]

\* initialize calls modelled on one simulation object: a second call for
\* the populations of at most 2 agents with a cap of one interaction
RunsFor(cfg) ==
    IF cfg = DriverConfig THEN MaxRuns
    ELSE IF cfg.populationSize >= 3 \/ cfg.maxInteractions > 1 THEN 1 ELSE MaxRuns

\* constructor
Init ==
    /\ config \in Configs
    /\ agents = <<>>
    /\ isRunning = FALSE
    /\ isComplete = FALSE
    /\ interactionCount = 0
    /\ opinionCounts = [red |-> 0, blue |-> 0]
    /\ opinionHistory = <<>>
    /\ currentPairing = <<>>
    /\ result = <<>>
    /\ notifications = <<>>
    /\ lastOp = "constructor"
    /\ branch = "none"
    /\ threw = FALSE
    /\ runs = 0
    /\ held = <<>>
    /\ driver = PageLoaded

\* lines 339-363: the population before the network is built; draws[k] is
\* the Math.random() of the agent at position k, in units of 1/DEN
CreateAgents(cfg, draws) ==
    LET totalAgents == cfg.populationSize
        redAgents == Round(totalAgents * cfg.redProportion, 100)
        blueAgents == totalAgents - redAgents
        redZealotCount == Round(redAgents * cfg.redZealotFraction, 100)
        blueZealotCount == Round(blueAgents * cfg.blueZealotFraction, 100)
    IN  [k \in 1 .. (redAgents + Max(blueAgents, 0)) |->
            IF k - 1 < redAgents
            THEN NewAgent(IF k - 1 < redZealotCount
                          THEN 0 - DEN
                          ELSE 0 - draws[k],
                          k - 1 < redZealotCount, k - 1)
            ELSE NewAgent(IF k - 1 - redAgents < blueZealotCount
                          THEN DEN
                          ELSE draws[k],
                          k - 1 - redAgents < blueZealotCount, k - 1)]

\* the positions whose belief is drawn
Drawn(cfg, k) == ~CreateAgents(cfg, [j \in 1 .. cfg.populationSize |-> 0])[k].isZealot

\* the populations initialize can build from a configuration
Populations(cfg) ==
    UNION {setupNetworkWithHomophily(CreateAgents(cfg, draws), cfg) :
             draws \in {d \in [1 .. cfg.populationSize -> BeliefDraws] :
                          \A k \in 1 .. cfg.populationSize : ~Drawn(cfg, k) => d[k] = 0}}

\* Populations, computed once for every configuration
PopulationTable ==
    [cfg \in Configs \cup {DriverConfig} |-> Populations(cfg)]

\* mutant: initialize leaves interactionCount as the previous run left it
initializeKeepsCount ==
    /\ runs < RunsFor(config)
    /\ \E built \in PopulationTable[config] :
          LET counts == updateOpinionCounts(built)
          IN  /\ agents' = built
              /\ opinionCounts' = counts
              /\ opinionHistory' = recordOpinionState(<<>>, 0, counts, Len(built))
    /\ isRunning' = FALSE
    /\ isComplete' = FALSE
    /\ currentPairing' = <<>>
    /\ result' = <<>>
    /\ notifications' = <<>>
    /\ lastOp' = "initialize"
    /\ branch' = "none"
    /\ threw' = FALSE
    /\ runs' = runs + 1
    /\ UNCHANGED <<config, interactionCount>>
    /\ held' = <<>>

initialize ==
    /\ runs < RunsFor(config)
    /\ \E built \in PopulationTable[config] :
          LET counts == updateOpinionCounts(built)
          IN  /\ agents' = built
              /\ opinionCounts' = counts
              /\ opinionHistory' = recordOpinionState(<<>>, 0, counts, Len(built))
    /\ isRunning' = FALSE
    /\ isComplete' = FALSE
    /\ interactionCount' = 0
    /\ currentPairing' = <<>>
    /\ result' = <<>>
    /\ notifications' = <<>>
    /\ lastOp' = "initialize"
    /\ branch' = "none"
    /\ threw' = FALSE
    /\ runs' = runs + 1
    /\ UNCHANGED config
    /\ held' = <<>>

\* mutant: the flags of the previous pair are left as they are
ClearPairingKeeps(ags, pairing) ==
    ags

\* lines 580-596: the flags of the previous pair are cleared
ClearPairing(ags, pairing) ==
    IF pairing = <<>> THEN ags
    ELSE [k \in 1 .. Len(ags) |->
            IF k - 1 = pairing[1].agent1Index \/ k - 1 = pairing[1].agent2Index
            THEN [ags[k] EXCEPT !.isInPairing = FALSE, !.currentPairingId = <<>>]
            ELSE ags[k]]

\* line 595: this.currentPairing.path = null
ClearPath(pairing) ==
    IF pairing = <<>> THEN pairing ELSE <<[pairing[1] EXCEPT !.path = <<>>]>>

\* lines 595 and 680: the record of a step holds the simulation's pairing
\* object itself, and the next step that gets past the completed check sets
\* that object's path to null; the pairing objects of later steps are new
\* objects (lines 618-622), and clearing a cleared path changes nothing
HeldAfterClear(h) ==
    IF h = <<>> THEN h
    ELSE <<[h[1] EXCEPT !.currentPairing = ClearPath(h[1].currentPairing)]>>

\* lines 613-616
MarkPairing(ags, a1, a2) ==
    LET first == [ags EXCEPT ![a1].isInPairing = TRUE,
                             ![a1].currentPairingId = <<ags[a2].id>>]
    IN  [first EXCEPT ![a2].isInPairing = TRUE,
                      ![a2].currentPairingId = <<ags[a1].id>>]

AgentReport(before, after, changed) ==
    [id |-> after.id,
     opinionBefore |-> Opinion(before.beliefValue),
     opinionAfter |-> Opinion(after.beliefValue),
     beliefBefore |-> before.beliefValue,
     beliefAfter |-> after.beliefValue,
     changed |-> changed,
     isZealot |-> after.isZealot]

\* mutant: the completion callback is called before the progress callback
NotifyCompletionFirst(count, counts, history, pairing, complete) ==
    <<[name |-> "onInteractionComplete", interactionCount |-> count,
       opinionCounts |-> counts, isComplete |-> complete]>>
    \o (IF complete
        THEN <<[name |-> "onSimulationComplete", interactionCount |-> count,
                opinionCounts |-> counts, isComplete |-> complete]>>
        ELSE <<>>)
    \o (IF count % ProgressPeriod = 0
        THEN <<[name |-> "onProgressUpdate", interactionCount |-> count,
                opinionCounts |-> counts, isComplete |-> complete]>>
        ELSE <<>>)

\* lines 684-707: the callbacks of one step, in call order
Notify(count, counts, history, pairing, complete) ==
    <<[name |-> "onInteractionComplete", interactionCount |-> count,
       opinionCounts |-> counts, isComplete |-> complete]>>
    \o (IF count % ProgressPeriod = 0
        THEN <<[name |-> "onProgressUpdate", interactionCount |-> count,
                opinionCounts |-> counts, isComplete |-> complete]>>
        ELSE <<>>)
    \o (IF complete
        THEN <<[name |-> "onSimulationComplete", interactionCount |-> count,
                opinionCounts |-> counts, isComplete |-> complete]>>
        ELSE <<>>)

\* mutant: the completed check comes after the count was incremented
runInteractionCompleteCounts ==
    /\ isComplete
    /\ interactionCount' = interactionCount + 1
    /\ result' = <<>>
    /\ notifications' = <<>>
    /\ lastOp' = "runInteraction"
    /\ branch' = "none"
    /\ threw' = FALSE
    /\ UNCHANGED <<config, agents, isRunning, isComplete,
                   opinionCounts, opinionHistory, currentPairing, runs, held>>

\* mutant: a call on a completed simulation clears the flag
runInteractionCompleteResets ==
    /\ isComplete
    /\ isComplete' = FALSE
    /\ result' = <<>>
    /\ notifications' = <<>>
    /\ lastOp' = "runInteraction"
    /\ branch' = "none"
    /\ threw' = FALSE
    /\ UNCHANGED <<config, agents, isRunning, interactionCount,
                   opinionCounts, opinionHistory, currentPairing, runs, held>>

\* runInteraction on a completed simulation: lines 573-575
runInteractionComplete ==
    /\ isComplete
    /\ result' = <<>>
    /\ notifications' = <<>>
    /\ lastOp' = "runInteraction"
    /\ branch' = "none"
    /\ threw' = FALSE
    /\ UNCHANGED <<config, agents, isRunning, isComplete, interactionCount,
                   opinionCounts, opinionHistory, currentPairing, runs, held>>

\* runInteraction on an empty population: agents[0] is undefined and reading
\* its neighbors throws a TypeError after isRunning was set
runInteractionThrows ==
    /\ ~isComplete
    /\ Len(agents) = 0
    /\ isRunning' = TRUE
    /\ result' = <<>>
    /\ notifications' = <<>>
    /\ lastOp' = "runInteraction"
    /\ branch' = "none"
    /\ threw' = TRUE
    /\ UNCHANGED <<config, agents, isComplete, interactionCount,
                   opinionCounts, opinionHistory, currentPairing, runs, held>>

\* mutant: the indices are used without the test for -1, and marking the
\* undefined agents[-1] throws
runInteractionNoPairUnchecked ==
    /\ ~isComplete
    /\ Len(agents) > 0
    /\ LET cleared == ClearPairing(agents, currentPairing)
       IN  /\ NoPair \in findConnectedAgentPair(cleared)
           /\ agents' = cleared
    /\ currentPairing' = ClearPath(currentPairing)
    /\ isRunning' = TRUE
    /\ result' = <<>>
    /\ notifications' = <<>>
    /\ lastOp' = "runInteraction"
    /\ branch' = "none"
    /\ threw' = TRUE
    /\ UNCHANGED <<config, isComplete, interactionCount, opinionCounts,
                   opinionHistory, runs>>
    /\ held' = HeldAfterClear(held)

\* runInteraction when no pair is found: lines 602-607
runInteractionNoPair ==
    /\ ~isComplete
    /\ Len(agents) > 0
    /\ LET cleared == ClearPairing(agents, currentPairing)
       IN  /\ NoPair \in findConnectedAgentPair(cleared)
           /\ agents' = cleared
    /\ currentPairing' = ClearPath(currentPairing)
    /\ isComplete' = TRUE
    /\ isRunning' = FALSE
    /\ result' = <<>>
    /\ notifications' = <<>>
    /\ lastOp' = "runInteraction"
    /\ branch' = "none"
    /\ threw' = FALSE
    /\ UNCHANGED <<config, interactionCount, opinionCounts, opinionHistory, runs>>
    /\ held' = HeldAfterClear(held)

\* runInteraction performing an interaction: lines 609-711
runInteractionPair ==
    /\ ~isComplete
    /\ Len(agents) > 0
    /\ LET cleared == ClearPairing(agents, currentPairing)
       IN  \E pick \in findConnectedAgentPair(cleared) \ {NoPair} :
             LET a1 == pick.agent1Index + 1
                 a2 == pick.agent2Index + 1
                 marked == MarkPairing(cleared, a1, a2)
                 pairing == <<[agent1Index |-> pick.agent1Index,
                               agent2Index |-> pick.agent2Index,
                               path |-> pick.path]>>
             IN  \E r1 \in DrawsFor(marked[a1], marked[a2]),
                    r2 \in DrawsFor(marked[a2], marked[a1]) :
                   LET u1 == updateBelief(marked[a1], marked[a2], marked, r1)
                       after1 == [marked EXCEPT ![a1] = u1.agent]
                       u2 == updateBelief(after1[a2], after1[a1], after1, r2)
                       after2 == [after1 EXCEPT ![a2] = u2.agent]
                       count == interactionCount + 1
                       counts == IF u1.changed \/ u2.changed
                                 THEN updateOpinionCounts(after2)
                                 ELSE opinionCounts
                       history == IF count % HistoryPeriod = 0
                                  THEN recordOpinionState(opinionHistory, count, counts,
                                                          Len(after2))
                                  ELSE opinionHistory
                       complete == checkCompletionConditions(isComplete, counts, count, config)
                   IN  /\ agents' = after2
                       /\ interactionCount' = count
                       /\ opinionCounts' = counts
                       /\ opinionHistory' = history
                       /\ isComplete' = complete
                       /\ currentPairing' = pairing
                       /\ branch' = pick.branch
                       /\ result' =
                            <<[interactionCount |-> count,
                               agents |-> [agent1 |-> AgentReport(marked[a1], after2[a1], u1.changed),
                                           agent2 |-> AgentReport(marked[a2], after2[a2], u2.changed)],
                               opinionCounts |-> counts,
                               currentPairing |-> pairing,
                               isComplete |-> complete]>>
                       /\ notifications' = Notify(count, counts, history, pairing, complete)
                       /\ held' =
                            IF held = <<>>
                            THEN <<[interactionCount |-> count,
                                    agents |-> [agent1 |-> AgentReport(marked[a1], after2[a1], u1.changed),
                                                agent2 |-> AgentReport(marked[a2], after2[a2], u2.changed)],
                                    opinionCounts |-> counts,
                                    currentPairing |-> pairing,
                                    isComplete |-> complete]>>
                            ELSE HeldAfterClear(held)
    /\ isRunning' = FALSE
    /\ lastOp' = "runInteraction"
    /\ threw' = FALSE
    /\ UNCHANGED <<config, runs>>

IsZealotOf(ags, op) ==
    Cardinality({k \in 1 .. Len(ags) : ags[k].isZealot /\ Opinion(ags[k].beliefValue) = op})

\* mutant: the query records a history snapshot before it answers
getStatisticsRecords ==
    LET history == recordOpinionState(opinionHistory, interactionCount, opinionCounts,
                                      Len(agents))
    IN  /\ opinionHistory' = history
        /\ result' = <<[interactionCount |-> interactionCount,
                        opinionCounts |-> opinionCounts,
                        opinionHistory |-> history,
                        currentPairing |-> currentPairing,
                        isComplete |-> isComplete,
                        zealotCount |-> Cardinality({k \in 1 .. Len(agents) : agents[k].isZealot}),
                        redZealotCount |-> IsZealotOf(agents, RED),
                        blueZealotCount |-> IsZealotOf(agents, BLUE)]>>
        /\ notifications' = <<>>
        /\ lastOp' = "getStatistics"
        /\ threw' = FALSE
        /\ UNCHANGED <<config, agents, isRunning, isComplete, interactionCount,
                       opinionCounts, currentPairing, branch, runs, held>>

getStatistics ==
    /\ result' = <<[interactionCount |-> interactionCount,
                    opinionCounts |-> opinionCounts,
                    opinionHistory |-> opinionHistory,
                    currentPairing |-> currentPairing,
                    isComplete |-> isComplete,
                    zealotCount |-> Cardinality({k \in 1 .. Len(agents) : agents[k].isZealot}),
                    redZealotCount |-> IsZealotOf(agents, RED),
                    blueZealotCount |-> IsZealotOf(agents, BLUE)]>>
    /\ notifications' = <<>>
    /\ lastOp' = "getStatistics"
    /\ threw' = FALSE
    /\ UNCHANGED <<config, agents, isRunning, isComplete, interactionCount,
                   opinionCounts, opinionHistory, currentPairing, branch, runs, held>>

\* the simulation called directly, with no page attached
Next ==
    \/ initialize /\ UNCHANGED driver
    \/ runInteractionComplete /\ UNCHANGED driver
    \/ runInteractionThrows /\ UNCHANGED driver
    \/ runInteractionNoPair /\ UNCHANGED driver
    \/ runInteractionPair /\ UNCHANGED driver
    \/ getStatistics /\ UNCHANGED driver

Spec == Init /\ [][Next]_vars

----------------------------------------------------------------------------
(* Properties *)

\* the last call was a runInteraction that performed an interaction
Stepped == lastOp = "runInteraction" /\ result # <<>>

\* C1: after initialize and after every step every agent's beliefValue lies
\* in [-1, 1]
C1_BeliefInRange ==
    \A k \in 1 .. Len(agents) :
        0 - DEN <= agents[k].beliefValue /\ agents[k].beliefValue <= DEN

\* a step in which a non-zealot moved towards a non-zealot
C1_Witness ==
    /\ Stepped
    /\ ~result[1].agents.agent1.isZealot
    /\ ~result[1].agents.agent2.isZealot
    /\ result[1].agents.agent1.beliefAfter # result[1].agents.agent1.beliefBefore

\* C2: a zealot's beliefValue is at all times the value initialize gave it:
\* -1 for the zealots of the red group, +1 for those of the blue group
C2_ZealotBeliefFixed ==
    \A k \in 1 .. Len(agents) :
        agents[k].isZealot =>
            agents[k].beliefValue =
                (IF k <= Round(config.populationSize * config.redProportion, 100)
                 THEN 0 - DEN ELSE DEN)

\* a step that paired a zealot with a non-zealot of another belief
C2_Witness ==
    /\ Stepped
    /\ result[1].agents.agent1.isZealot
    /\ ~result[1].agents.agent2.isZealot
    /\ result[1].agents.agent2.beliefBefore # result[1].agents.agent1.beliefBefore
    /\ Len(agents[result[1].agents.agent1.id + 1].interactionHistory) > 0

\* C3: opinionCounts.red is the number of agents with a negative belief and
\* opinionCounts.blue the number with a non-negative belief, in every state
C3_CountsMatchBeliefs ==
    /\ opinionCounts.red = Cardinality({k \in 1 .. Len(agents) : agents[k].beliefValue < 0})
    /\ opinionCounts.blue = Cardinality({k \in 1 .. Len(agents) : agents[k].beliefValue >= 0})

\* a step in which a participant changed its opinion
C3_Witness ==
    /\ Stepped
    /\ \/ result[1].agents.agent1.changed
       \/ result[1].agents.agent2.changed

\* C4: once initialized, opinionCounts.red + opinionCounts.blue is the
\* configured populationSize
C4_CountsSumToPopulation ==
    runs > 0 => opinionCounts.red + opinionCounts.blue = config.populationSize

\* a step that changed the counts of a population holding a belief of 0
C4_Witness ==
    /\ Stepped
    /\ result[1].agents.agent2.changed
    /\ \E k \in 1 .. Len(agents) : agents[k].beliefValue = 0
    /\ opinionCounts.red + opinionCounts.blue = config.populationSize

\* C5: the neighbor relation is symmetric: B.id is in A.neighbors if and
\* only if A.id is in B.neighbors
C5_NeighborsSymmetric ==
    \A a, b \in 1 .. Len(agents) :
        InSeq(agents[b].id, agents[a].neighbors) <=> InSeq(agents[a].id, agents[b].neighbors)

\* C6: interactionCount never exceeds maxInteractions, and while neither
\* opinion count is zero isComplete is true exactly when interactionCount
\* has reached maxInteractions
C6_CompletesAtCap ==
    /\ interactionCount <= MaxInteractions(config)
    /\ (runs > 0 /\ opinionCounts.red # 0 /\ opinionCounts.blue # 0) =>
           (isComplete <=> interactionCount = MaxInteractions(config))

\* the step that reaches a cap of at least 2 with both opinions present
C6_Witness ==
    /\ Stepped
    /\ isComplete
    /\ MaxInteractions(config) >= 2
    /\ interactionCount = MaxInteractions(config)
    /\ opinionCounts.red # 0 /\ opinionCounts.blue # 0
    /\ Len(agents) >= 2

\* C7: a runInteraction call on a completed simulation returns null, invokes
\* no callback and changes no part of the simulation state
C7_CompleteStepChangesNothing ==
    [][(isComplete /\ lastOp' = "runInteraction") =>
          /\ result' = <<>>
          /\ notifications' = <<>>
          /\ UNCHANGED <<agents, interactionCount, opinionCounts, opinionHistory,
                         currentPairing, isComplete, isRunning>>]_vars

\* a call that came back null on a simulation completed by an interaction
C7_Witness ==
    /\ lastOp = "runInteraction"
    /\ result = <<>>
    /\ isComplete
    /\ interactionCount > 0

\* C8: isComplete, once true, is still true after every runInteraction and
\* getStatistics call
C8_CompleteStaysComplete ==
    [][(isComplete /\ lastOp' \in {"runInteraction", "getStatistics"}) => isComplete']_vars

\* getStatistics called on a completed simulation
C8_Witness ==
    /\ lastOp = "getStatistics"
    /\ isComplete
    /\ result # <<>>
    /\ result[1].isComplete

\* C9: the two agents of a found pair are distinct, whichever return of
\* findConnectedAgentPair produced it
C9_PairDistinct ==
    Stepped =>
        /\ currentPairing[1].agent1Index # currentPairing[1].agent2Index
        /\ result[1].agents.agent1.id # result[1].agents.agent2.id

\* a pair returned by the any-reachable fallback of the search
C9_Witness ==
    /\ Stepped
    /\ branch = "fallback"
    /\ currentPairing[1].agent1Index # currentPairing[1].agent2Index

\* the ids reachable from id along at most n neighbour links
RECURSIVE WithinHops(_, _, _)
WithinHops(ags, id, n) ==
    IF n <= 0 THEN {id}
    ELSE LET near == WithinHops(ags, id, n - 1)
         IN  near \cup {x \in 0 .. (Len(ags) - 1) :
                          \E y \in near : InSeq(x, ags[y + 1].neighbors)}

\* C10: the path of a found pair starts at the first agent, ends at the
\* second, follows neighbour links, is as short as any such path, and has
\* length 2 exactly when the second agent is a neighbour of the first
C10_PathIsShortest ==
    Stepped =>
        LET path == currentPairing[1].path
            first == agents[currentPairing[1].agent1Index + 1]
            second == agents[currentPairing[1].agent2Index + 1]
        IN  /\ Len(path) >= 2
            /\ path[1] = first.id
            /\ path[Len(path)] = second.id
            /\ \A j \in 1 .. (Len(path) - 1) :
                  InSeq(path[j + 1], agents[path[j] + 1].neighbors)
            /\ second.id \notin WithinHops(agents, first.id, Len(path) - 2)
            /\ (Len(path) = 2 <=> InSeq(second.id, first.neighbors))

\* a pair joined by a path through a third agent
C10_Witness ==
    /\ Stepped
    /\ branch = "indirect"
    /\ Len(currentPairing[1].path) = 3

----------------------------------------------------------------------------
(* Belief updates of a step, stated from the update rule *)

\* the step from the unprimed to the primed state performed an interaction
StepTaken == lastOp' = "runInteraction" /\ result' # <<>>

\* the number of neighbours of the agent at position k of ags whose opinion
\* differs from the opinion of a belief b
Opposing(ags, k, b) ==
    Cardinality({n \in 1 .. Len(ags[k].neighbors) :
                    (ags[ags[k].neighbors[n] + 1].beliefValue < 0) # (b < 0)})

\* clamp(b + sign(c - b) * 0.1 * S * (1 - |c|), -1, 1) for S = opp / n, and
\* S = 0 for an agent without neighbours; beliefs in units of 1/DEN
RuleBelief(b, c, opp, n) ==
    LET reach == IF n = 0 THEN 0 ELSE (opp * (DEN - Abs(c))) \div (10 * n)
        moved == IF c > b THEN b + reach ELSE IF c < b THEN b - reach ELSE b
    IN  IF moved > DEN THEN DEN ELSE IF moved < 0 - DEN THEN 0 - DEN ELSE moved

\* the belief the rule gives the agent at position k of ags against the
\* agent at position j of ags, both read from ags
Unchained(ags, k, j) ==
    IF ags[k].isZealot THEN ags[k].beliefValue
    ELSE IF ags[j].isZealot THEN ags[j].beliefValue
    ELSE RuleBelief(ags[k].beliefValue, ags[j].beliefValue,
                    Opposing(ags, k, ags[k].beliefValue), Len(ags[k].neighbors))

\* C11: within one step the two belief updates are not chained: each
\* participant's new belief is computed from the other's belief as it was
\* before the step
C11_UpdatesNotChained ==
    [][StepTaken =>
          LET a1 == currentPairing'[1].agent1Index + 1
              a2 == currentPairing'[1].agent2Index + 1
          IN  /\ agents'[a1].beliefValue = Unchained(agents, a1, a2)
              /\ agents'[a2].beliefValue = Unchained(agents, a2, a1)]_vars

\* C12: a non-zealot with belief b and susceptibility S (the fraction of its
\* neighbours whose current opinion differs from its own) updated against a
\* non-zealot with belief c gets clamp(b + sign(c - b) * 0.1 * S * (1 - |c|),
\* -1, 1), and keeps b when c = b or |c| = 1.  The first participant is
\* updated in the state before the step, the second in the state the first
\* update leaves
C12_UpdateRule ==
    [][(/\ StepTaken
        /\ ~result'[1].agents.agent1.isZealot
        /\ ~result'[1].agents.agent2.isZealot) =>
          LET a1 == currentPairing'[1].agent1Index + 1
              a2 == currentPairing'[1].agent2Index + 1
              b1 == agents[a1].beliefValue
              c1 == agents[a2].beliefValue
              b2 == agents[a2].beliefValue
              c2 == agents'[a1].beliefValue
              between == [agents EXCEPT ![a1].beliefValue = c2]
          IN  /\ agents'[a1].beliefValue =
                    RuleBelief(b1, c1, Opposing(agents, a1, b1), Len(agents[a1].neighbors))
              /\ agents'[a2].beliefValue =
                    RuleBelief(b2, c2, Opposing(between, a2, b2), Len(agents[a2].neighbors))
              /\ (c1 = b1 \/ Abs(c1) = DEN) => agents'[a1].beliefValue = b1
              /\ (c2 = b2 \/ Abs(c2) = DEN) => agents'[a2].beliefValue = b2]_vars

\* a step of two non-zealots in which both beliefs moved
C12_Witness ==
    /\ Stepped
    /\ ~result[1].agents.agent1.isZealot
    /\ ~result[1].agents.agent2.isZealot
    /\ result[1].agents.agent1.beliefAfter # result[1].agents.agent1.beliefBefore
    /\ result[1].agents.agent2.beliefAfter # result[1].agents.agent2.beliefBefore
    /\ Abs(result[1].agents.agent2.beliefAfter) < DEN

\* C13: with zealotInfluenceProbability = 1.0, after an interaction of a
\* non-zealot with a zealot the non-zealot's belief is the zealot's belief
\* exactly (-1 or +1), whatever its susceptibility and whichever of the two
\* is the first participant
C13_ZealotAdopted ==
    Stepped =>
        LET first == result[1].agents.agent1
            second == result[1].agents.agent2
        IN  /\ (first.isZealot /\ ~second.isZealot) =>
                  /\ second.beliefAfter = first.beliefBefore
                  /\ agents[second.id + 1].beliefValue = agents[first.id + 1].beliefValue
                  /\ Abs(agents[second.id + 1].beliefValue) = DEN
            /\ (second.isZealot /\ ~first.isZealot) =>
                  /\ first.beliefAfter = second.beliefBefore
                  /\ agents[first.id + 1].beliefValue = agents[second.id + 1].beliefValue
                  /\ Abs(agents[first.id + 1].beliefValue) = DEN

\* a non-zealot, first participant and of the zealot's opinion (no opposing
\* neighbour), that took the zealot's belief
C13_Witness ==
    /\ Stepped
    /\ Len(agents) = 2
    /\ ~result[1].agents.agent1.isZealot
    /\ result[1].agents.agent2.isZealot
    /\ result[1].agents.agent1.opinionBefore = result[1].agents.agent2.opinionBefore
    /\ result[1].agents.agent1.beliefBefore # result[1].agents.agent2.beliefBefore
    /\ result[1].agents.agent1.beliefAfter = result[1].agents.agent2.beliefBefore

\* C14: a non-zealot whose neighbours all share its opinion when a step
\* begins has the same belief after the step whenever its partner in the
\* step is a non-zealot
C14_UnsusceptibleKeepsBelief ==
    [][(/\ StepTaken
        /\ ~result'[1].agents.agent1.isZealot
        /\ ~result'[1].agents.agent2.isZealot) =>
          LET a1 == currentPairing'[1].agent1Index + 1
              a2 == currentPairing'[1].agent2Index + 1
          IN  \A k \in {a1, a2} :
                 Opposing(agents, k, agents[k].beliefValue) = 0 =>
                    agents'[k].beliefValue = agents[k].beliefValue]_vars

\* C15: immediately after initialize, for every valid configuration and
\* every sequence of random draws, exactly round(populationSize *
\* redProportion) agents have RED opinion and the others BLUE; redProportion
\* = 1.0 gives opinionCounts = {red: populationSize, blue: 0}
C15_RedCountAfterInitialize ==
    (lastOp = "initialize" /\ config.populationSize > 0) =>
        LET red == (2 * config.populationSize * config.redProportion + 100) \div 200
        IN  /\ Cardinality({k \in 1 .. Len(agents) : agents[k].beliefValue < 0}) = red
            /\ Cardinality({k \in 1 .. Len(agents) : ~(agents[k].beliefValue < 0)})
                  = config.populationSize - red
            /\ opinionCounts = [red |-> red, blue |-> config.populationSize - red]
            /\ config.redProportion = 100 =>
                  opinionCounts = [red |-> config.populationSize, blue |-> 0]

\* one opinion count is zero
SingleOpinion == opinionCounts.red = 0 \/ opinionCounts.blue = 0

\* the step from the unprimed state is the first call of runInteraction on
\* an initialized simulation
FirstStep ==
    /\ runs > 0
    /\ interactionCount = 0
    /\ ~isComplete
    /\ lastOp \in {"initialize", "getStatistics"}
    /\ lastOp' = "runInteraction"

\* C16: when the population holds a single opinion at initialize, isComplete
\* is false right after initialize and becomes true at the end of the first
\* step, with interactionCount = 1
C16_SingleOpinionCompletes ==
    [][/\ (lastOp' = "initialize" /\ config.populationSize >= 1) => ~isComplete'
       /\ (FirstStep /\ SingleOpinion /\ config.populationSize >= 1) =>
             (isComplete' /\ interactionCount' = 1)]_vars

\* C16 as amended: the same for a population of at least two agents
C16_SingleOpinionCompletesPair ==
    [][/\ (lastOp' = "initialize" /\ config.populationSize >= 2) => ~isComplete'
       /\ (FirstStep /\ SingleOpinion /\ config.populationSize >= 2) =>
             (isComplete' /\ interactionCount' = 1)]_vars

\* a population of two or more that held one opinion at initialize and was
\* completed by its first step, short of the cap
C16_Witness ==
    /\ Stepped
    /\ Len(agents) >= 2
    /\ interactionCount = 1
    /\ isComplete
    /\ MaxInteractions(config) > 1
    /\ opinionHistory[1].interactionCount = 0
    /\ opinionHistory[1].redCount = 0 \/ opinionHistory[1].blueCount = 0

\* populationSize <= 0, or a proportion or fraction outside [0, 1]
InvalidConfig ==
    \/ config.populationSize <= 0
    \/ config.redProportion \notin 0 .. 100
    \/ config.redZealotFraction \notin 0 .. 100
    \/ config.blueZealotFraction \notin 0 .. 100

\* C17: initialize called with an invalid configuration reports an error to
\* its caller and leaves the simulation state as it was: no agents are
\* created and no counter or history is changed
C17_InvalidConfigRejected ==
    [][(lastOp' = "initialize" /\ InvalidConfig) =>
          /\ threw'
          /\ UNCHANGED <<agents, isComplete, interactionCount, opinionCounts,
                         opinionHistory, currentPairing>>]_vars

\* no agent of the population has a neighbour, so no pair exists
NoPairExists ==
    /\ Len(agents) > 0
    /\ \A k \in 1 .. Len(agents) : Len(agents[k].neighbors) = 0

C19_StatisticsPure ==
    [][lastOp' = "getStatistics" =>
          /\ UNCHANGED <<config, agents, isRunning, isComplete, interactionCount,
                         opinionCounts, opinionHistory, currentPairing>>
          /\ result' # <<>>
          /\ result'[1].interactionCount = interactionCount
          /\ result'[1].opinionCounts = opinionCounts
          /\ result'[1].opinionHistory = opinionHistory
          /\ result'[1].currentPairing = currentPairing
          /\ result'[1].isComplete = isComplete
          /\ lastOp = "getStatistics" => result' = result]_vars

\* getStatistics answered between two steps of a run
C19_Witness ==
    /\ lastOp = "getStatistics"
    /\ result # <<>>
    /\ ~isComplete
    /\ interactionCount > 0
    /\ result[1].interactionCount = interactionCount
    /\ result[1].currentPairing # <<>>
    /\ result[1].zealotCount = result[1].redZealotCount + result[1].blueZealotCount

----------------------------------------------------------------------------
(* The callbacks of a step *)

\* the names of the callbacks a step is to call, in call order, for the
\* interactionCount and the isComplete the step leaves
CallbackNames ==
    <<"onInteractionComplete">>
    \o (IF interactionCount % 50 = 0 THEN <<"onProgressUpdate">> ELSE <<>>)
    \o (IF isComplete THEN <<"onSimulationComplete">> ELSE <<>>)

\* C21: a step that performs an interaction calls the registered callbacks
\* in this order: onInteractionComplete, then onProgressUpdate if and only
\* if interactionCount is a multiple of 50, then onSimulationComplete if and
\* only if isComplete is true at the end of the step; each of them sees the
\* interactionCount, the opinionCounts and the isComplete the step leaves
C21_CallbackOrder ==
    Stepped =>
        /\ Len(notifications) = Len(CallbackNames)
        /\ \A i \in 1 .. Len(notifications) :
              /\ notifications[i].name = CallbackNames[i]
              /\ notifications[i].interactionCount = interactionCount
              /\ notifications[i].opinionCounts = opinionCounts
              /\ notifications[i].isComplete = isComplete

\* the 50th interaction of a run that goes on: a progress callback and no
\* completion callback
C21_Witness ==
    /\ Stepped
    /\ interactionCount = 50
    /\ ~isComplete
    /\ Len(notifications) = 2
    /\ notifications[2].name = "onProgressUpdate"

----------------------------------------------------------------------------
(* The history of a long run *)

\* the interactions after which the history is first full
CapCount == HistoryPeriod * (HistoryCap - 1)

\* interactions of the run of two zealots already made where the second
\* specification starts, one before the first snapshot that evicts, and the
\* cap of that run, which lets three snapshots evict
NearCapStart == CapCount + HistoryPeriod - 1
NearCapM == CapCount + 3 * HistoryPeriod

NearCapConfig == [LongConfig EXCEPT !.maxInteractions = NearCapM]

\* the history of a run of two zealots after its snapshot number n, for
\* n < HistoryCap: the snapshots recordOpinionState pushed, none evicted
ZealotHistory(n) ==
    [i \in 1 .. (n + 1) |->
        recordOpinionState(<<>>, HistoryPeriod * (i - 1), [red |-> 1, blue |-> 1], 2)[1]]

\* the two zealots after k interactions, the last one of agent 0 with its
\* neighbour agent 1
ZealotAgents(k) ==
    [j \in 1 .. 2 |->
        [NewAgent(IF j = 1 THEN 0 - DEN ELSE DEN, TRUE, j - 1)
            EXCEPT !.neighbors = <<2 - j>>,
                   !.interactionHistory =
                       [i \in 1 .. k |->
                           [agentId |-> 2 - j,
                            otherBelief |-> IF j = 1 THEN DEN ELSE 0 - DEN,
                            myBeliefBefore |-> IF j = 1 THEN 0 - DEN ELSE DEN]],
                   !.currentPairingId = <<2 - j>>,
                   !.isInPairing = TRUE]]

\* the state of the run of two zealots under NearCapConfig after
\* NearCapStart interactions
InitNearCap ==
    LET counts == [red |-> 1, blue |-> 1]
        pairing == <<[agent1Index |-> 0, agent2Index |-> 1, path |-> <<0, 1>>]>>
        ags == ZealotAgents(NearCapStart)
        history == ZealotHistory(NearCapStart \div HistoryPeriod)
    IN  /\ config = NearCapConfig
        /\ agents = ags
        /\ isRunning = FALSE
        /\ isComplete = FALSE
        /\ interactionCount = NearCapStart
        /\ opinionCounts = counts
        /\ opinionHistory = history
        /\ currentPairing = pairing
        /\ result =
             <<[interactionCount |-> NearCapStart,
                agents |-> [agent1 |-> AgentReport(ags[1], ags[1], FALSE),
                            agent2 |-> AgentReport(ags[2], ags[2], FALSE)],
                opinionCounts |-> counts,
                currentPairing |-> pairing,
                isComplete |-> FALSE]>>
        /\ notifications = Notify(NearCapStart, counts, history, pairing, FALSE)
        /\ lastOp = "runInteraction"
        /\ branch = "direct"
        /\ threw = FALSE
        /\ runs = 1
        /\ held =
             <<[interactionCount |-> 1,
                agents |-> [agent1 |-> AgentReport(ags[1], ags[1], FALSE),
                            agent2 |-> AgentReport(ags[2], ags[2], FALSE)],
                opinionCounts |-> counts,
                currentPairing |-> ClearPath(pairing),
                isComplete |-> FALSE]>>
        /\ driver = PageLoaded

\* a simulation from its construction, or the long run of two zealots
\* shortly before its history is full
InitHistory == Init \/ InitNearCap

SpecHistory == InitHistory /\ [][Next]_vars

\* C22: after k successful steps since initialize, opinionHistory holds, in
\* increasing order of interactionCount, exactly the most recent
\* min(1000, floor(k/10) + 1) of the snapshots taken at the interaction
\* counts 0, 10, 20, ..., 10 * floor(k/10); it never holds more than 1000
\* entries and only the oldest are evicted
C22_HistorySnapshots ==
    runs > 0 =>
        LET last == interactionCount \div 10
            kept == IF last + 1 < 1000 THEN last + 1 ELSE 1000
        IN  /\ Len(opinionHistory) = kept
            /\ \A i \in 1 .. Len(opinionHistory) :
                  /\ opinionHistory[i].interactionCount = 10 * (last - kept + i)
                  /\ opinionHistory[i].redCount + opinionHistory[i].blueCount = Len(agents)
            /\ interactionCount % 10 = 0 =>
                  /\ opinionHistory[kept].redCount = opinionCounts.red
                  /\ opinionHistory[kept].blueCount = opinionCounts.blue

\* a full history that has evicted its oldest snapshots
C22_Witness ==
    /\ Stepped
    /\ Len(opinionHistory) = 1000
    /\ opinionHistory[1].interactionCount = 10
    /\ opinionHistory[1000].interactionCount = interactionCount

----------------------------------------------------------------------------
(* A second initialize *)

\* C23: initialize called after any sequence of steps of a previous run
\* discards that run: afterwards interactionCount is 0, isComplete is false,
\* currentPairing is null, no agent is marked as in a pairing or carries
\* interaction history, and opinionHistory holds exactly one snapshot, taken
\* at interactionCount 0 with the counts of the new population
C23_InitializeDiscardsRun ==
    [][(runs > 0 /\ lastOp' = "initialize") =>
          /\ interactionCount' = 0
          /\ ~isComplete'
          /\ ~isRunning'
          /\ currentPairing' = <<>>
          /\ \A k \in 1 .. Len(agents') :
                /\ ~agents'[k].isInPairing
                /\ agents'[k].currentPairingId = <<>>
                /\ agents'[k].interactionHistory = <<>>
          /\ Len(opinionHistory') = 1
          /\ opinionHistory'[1].interactionCount = 0
          /\ opinionHistory'[1].redCount =
                Cardinality({k \in 1 .. Len(agents') : agents'[k].beliefValue < 0})
          /\ opinionHistory'[1].blueCount =
                Cardinality({k \in 1 .. Len(agents') : agents'[k].beliefValue >= 0})]_vars

\* a second population of two agents, just initialized
C23_Witness ==
    /\ lastOp = "initialize"
    /\ runs = 2
    /\ Len(agents) = 2
    /\ interactionCount = 0
    /\ Len(opinionHistory) = 1

----------------------------------------------------------------------------
(* The network *)

\* a neighbour list of the agent id: 1 to 3 entries, none twice, none id
ListOk(l, id) ==
    /\ 1 <= Len(l)
    /\ Len(l) <= 3
    /\ \A i, j \in 1 .. Len(l) : l[i] = l[j] => i = j
    /\ \A i \in 1 .. Len(l) : l[i] # id

\* C24: after network construction on a population of at least 2 agents,
\* every agent's neighbour list has between 1 and 3 entries, no entry twice
\* and not the agent's own id.  Stated of the lists the simulation holds
\* and, since a population of 3 offers an agent only 2 others, of the lists
\* the builder can give each agent of a population of 3 red and 2 blue
\* agents under the configured homophily.
C24_NeighborListsWellFormed ==
    /\ (runs > 0 /\ Len(agents) >= 2) =>
          \A k \in 1 .. Len(agents) : ListOk(agents[k].neighbors, agents[k].id)
    /\ lastOp = "initialize" =>
          \A id \in 0 .. 4 :
              \A l \in NeighborLists(id, IF id <= 2 THEN "red" ELSE "blue",
                                     <<0, 1, 2>>, <<3, 4>>, Homophily(config)) :
                  ListOk(l, id)

\* a population of 3 in which one agent was given both others and another
\* a single neighbour
C24_Witness ==
    /\ lastOp = "initialize"
    /\ Len(agents) = 3
    /\ \E k \in 1 .. 3 : Len(agents[k].neighbors) = 2
    /\ \E k \in 1 .. 3 : Len(agents[k].neighbors) = 1
    /\ \E l \in NeighborLists(0, "red", <<0, 1, 2>>, <<3, 4>>, Homophily(config)) : Len(l) = 3

\* the populations initialize can hand to the network builder
CreatedPopulations ==
    {CreateAgents(config, draws) :
        draws \in {d \in [1 .. config.populationSize -> BeliefDraws] :
                     \A k \in 1 .. config.populationSize : ~Drawn(config, k) => d[k] = 0}}

\* C25: network construction terminates for every population, every
\* homophily value and every sequence of random draws, after at most 50
\* connection attempts per agent; no attempt loops without consuming the
\* retry budget.  Stated of a simulation on which initialize is about to be
\* called: no population it can create lets the builder enter a loop it
\* never leaves.
C25_ConstructionTerminates ==
    runs < RunsFor(config) =>
        \A ags \in CreatedPopulations : ~setupNetworkSpins(ags, config)

\* C26: the homophily parameter h is the probability that a sought partner
\* shares the agent's opinion over the whole of [0, 1]: with h = 0 no
\* attempt of the retry loop seeks a same-opinion partner, so when both
\* opinions are present every neighbour chosen for an agent has the
\* opposite opinion
C26_ZeroHomophilyOppositeOnly ==
    (/\ lastOp = "initialize"
     /\ config.homophily = 0
     /\ \E k \in 1 .. Len(agents) : agents[k].beliefValue < 0
     /\ \E k \in 1 .. Len(agents) : agents[k].beliefValue >= 0) =>
        \A k \in 1 .. Len(agents) :
            \A n \in 1 .. Len(agents[k].neighbors) :
                (agents[agents[k].neighbors[n] + 1].beliefValue < 0)
                    # (agents[k].beliefValue < 0)

----------------------------------------------------------------------------
(* The attempts of the retry loop *)

\* The lists of the retry loop of the agent at position k on which an
\* attempt was made: the empty list the loop starts with and the proper
\* prefixes of its final list, the list being filled by appending.
AttemptedLists(k) ==
    {<<>>} \cup {SubSeq(agents[k].neighbors, 1, p) : p \in 0 .. (Len(agents[k].neighbors) - 1)}

\* the ids of the opinion of the agent at position k, or of the other one
SideIds(k, same) ==
    {agents[j].id : j \in {i \in 1 .. Len(agents) :
                              ((agents[i].beliefValue < 0) = (agents[k].beliefValue < 0)) = same}}

\* the valid candidates of a side for the agent at position k holding l
ValidCandidates(k, same, l) ==
    {x \in SideIds(k, same) : x # agents[k].id /\ ~InSeq(x, l)}

\* C27: in the retry loop every attempt whose chosen side (same or opposite
\* opinion) holds at least one valid candidate, an agent other than self
\* that is not yet a chosen neighbour, adds exactly one neighbour from that
\* side; an attempt is skipped only when the side has no valid candidate
C27_AttemptAddsValidCandidate ==
    lastOp = "initialize" =>
        \A k \in 1 .. Len(agents) :
            \A l \in AttemptedLists(k), r \in RandomDraws :
                LET same == r * 100 < Homophily(config) * RandomGrid
                    valid == ValidCandidates(k, same, l)
                IN  valid # {} =>
                        \A out \in AttemptOutcomes(agents[k].id,
                                                   Opinion(agents[k].beliefValue), l,
                                                   IdsWithOpinion(agents, RED, 1),
                                                   IdsWithOpinion(agents, BLUE, 1),
                                                   Homophily(config), r) :
                            /\ Len(out) = Len(l) + 1
                            /\ SubSeq(out, 1, Len(l)) = l
                            /\ out[Len(out)] \in valid

\* C28: in the retry loop an attempt that seeks an opposite-opinion partner
\* while no agent of the opposite opinion exists adds no neighbour at all,
\* never a same-opinion one in its place, and still consumes one attempt of
\* the budget: an agent whose attempts all go that way ends the loop
\* without a neighbour, and only the fallback connects it
C28_NoOppositeNoNeighbor ==
    lastOp = "initialize" =>
        \A k \in 1 .. Len(agents) :
            \A r \in RandomDraws :
                (/\ ~(r * 100 < Homophily(config) * RandomGrid)
                 /\ SideIds(k, FALSE) = {}) =>
                    /\ \A l \in AttemptedLists(k) :
                          AttemptOutcomes(agents[k].id, Opinion(agents[k].beliefValue), l,
                                          IdsWithOpinion(agents, RED, 1),
                                          IdsWithOpinion(agents, BLUE, 1),
                                          Homophily(config), r) = {l}
                    /\ <<>> \in RetryLoop(agents[k].id, Opinion(agents[k].beliefValue),
                                          IdsWithOpinion(agents, RED, 1),
                                          IdsWithOpinion(agents, BLUE, 1),
                                          Homophily(config), 1, {<<>>}, {}, 0)

\* two agents of one opinion under homophily 0.5, each the other's neighbour
C28_Witness ==
    /\ lastOp = "initialize"
    /\ Len(agents) = 2
    /\ Homophily(config) = 50
    /\ agents[1].beliefValue >= 0
    /\ agents[2].beliefValue >= 0
    /\ agents[1].neighbors = <<1>>
    /\ agents[2].neighbors = <<0>>

\* the lists the retry loop of the agent at position k can end with, for a
\* connectionCount
LoopEnds(k, connectionCount) ==
    RetryLoop(agents[k].id, Opinion(agents[k].beliefValue),
              IdsWithOpinion(agents, RED, 1), IdsWithOpinion(agents, BLUE, 1),
              Homophily(config), connectionCount, {<<>>}, {}, 0)

\* what the fallback gives the agent at position k when its loop ended
\* without a neighbour
Forced(k) ==
    Fallback(agents[k].id, Opinion(agents[k].beliefValue), <<>>,
             IdsWithOpinion(agents, RED, 1), IdsWithOpinion(agents, BLUE, 1),
             Homophily(config))

----------------------------------------------------------------------------
(* The search attempt of the pair finder *)

\* the ids the agent id reaches along neighbour links, but not in one hop
MultiHop(id) ==
    WithinHops(agents, id, Len(agents)) \ WithinHops(agents, id, 1)

\* C30: when the pair finder returns a pair from its breadth-first search
\* attempt and the start agent reaches at least one agent whose shortest
\* path has more than 2 nodes, the partner is such an agent; a partner
\* adjacent to the start agent is returned from this attempt only when no
\* such agent is reachable
C30_SearchPrefersMultiHop ==
    (Stepped /\ branch \in {"indirect", "fallback"}) =>
        LET startId == agents[currentPairing[1].agent1Index + 1].id
            partnerId == agents[currentPairing[1].agent2Index + 1].id
        IN  /\ MultiHop(startId) # {} => partnerId \in MultiHop(startId)
            /\ MultiHop(startId) = {} =>
                  InSeq(partnerId, agents[currentPairing[1].agent1Index + 1].neighbors)

\* the search attempt started from an agent with a neighbour and an agent
\* two hops away, and returned the latter
C30_Witness ==
    /\ Stepped
    /\ branch = "indirect"
    /\ Len(agents) = 3
    /\ Len(agents[currentPairing[1].agent1Index + 1].neighbors) = 1
    /\ MultiHop(agents[currentPairing[1].agent1Index + 1].id)
          = {agents[currentPairing[1].agent2Index + 1].id}

----------------------------------------------------------------------------
(* The pairing flags *)

\* C31: after every step that performs an interaction exactly the two
\* participants have isInPairing true, each with the other's id as
\* currentPairingId, and every other agent has isInPairing false and
\* currentPairingId null; after a step in which pairing fails no agent is
\* marked as in a pairing
C31_PairingFlags ==
    [][/\ StepTaken =>
             LET a1 == currentPairing'[1].agent1Index + 1
                 a2 == currentPairing'[1].agent2Index + 1
             IN  /\ a1 # a2
                 /\ \A k \in 1 .. Len(agents') :
                       IF k = a1 \/ k = a2
                       THEN /\ agents'[k].isInPairing
                            /\ agents'[k].currentPairingId
                                  = <<agents'[IF k = a1 THEN a2 ELSE a1].id>>
                       ELSE /\ ~agents'[k].isInPairing
                            /\ agents'[k].currentPairingId = <<>>
       /\ (lastOp' = "runInteraction" /\ ~isComplete /\ result' = <<>> /\ ~threw') =>
             \A k \in 1 .. Len(agents') :
                 ~agents'[k].isInPairing /\ agents'[k].currentPairingId = <<>>]_vars

\* the second interaction of three agents, one of whom took part in the
\* first and not in the second
C31_Witness ==
    /\ Stepped
    /\ interactionCount = 2
    /\ Len(agents) = 3
    /\ \E k \in 1 .. 3 :
          /\ ~agents[k].isInPairing
          /\ Len(agents[k].interactionHistory) = 1

----------------------------------------------------------------------------
(* Agent.updateBelief on its own *)

\* calls of updateBelief made on one pair of Agent objects
MaxCalls == 2

\* beliefs of the sampled agents: -1, -0.01, 0, 0.01, 0.5 and 1
SampleBeliefs ==
    {0 - DEN, 0 - (DEN \div 100), 0, DEN \div 100, DEN \div 2, DEN}

\* two Agent objects as the simulation can hold them: a zealot at an extreme
\* belief, a non-zealot anywhere, each with the other as neighbour or with
\* none (the list of a single agent)
SampleAgents ==
    {ags \in [1 .. 2 -> [beliefValue : SampleBeliefs, isZealot : BOOLEAN, id : 0 .. 1,
                         neighbors : {<<>>, <<0>>, <<1>>},
                         interactionHistory : {<<>>},
                         currentPairingId : {<<>>}, isInPairing : {FALSE}]] :
        \A k \in 1 .. 2 :
            /\ ags[k].id = k - 1
            /\ ags[k].isZealot => ags[k].beliefValue \in {0 - DEN, DEN}
            /\ ags[k].neighbors \in {<<>>, <<2 - k>>}}

\* the two agents as constructed, before any call
InitAgent ==
    /\ config = [LongConfig EXCEPT !.maxInteractions = MaxCalls]
    /\ agents \in SampleAgents
    /\ isRunning = FALSE
    /\ isComplete = FALSE
    /\ interactionCount = 0
    /\ opinionCounts = [red |-> 0, blue |-> 0]
    /\ opinionHistory = <<>>
    /\ currentPairing = <<>>
    /\ result = <<>>
    /\ notifications = <<>>
    /\ lastOp = "constructor"
    /\ branch = "none"
    /\ threw = FALSE
    /\ runs = 0
    /\ held = <<>>
    /\ driver = PageLoaded

\* agents[self].updateBelief(agents[other], agentMap); the result records
\* the positions of the two and the value returned
updateBeliefCall ==
    /\ Len(agents[1].interactionHistory) + Len(agents[2].interactionHistory) < MaxCalls
    /\ \E self \in 1 .. 2 :
          LET other == 3 - self
          IN  \E r \in DrawsFor(agents[self], agents[other]) :
                LET u == updateBelief(agents[self], agents[other], agents, r)
                IN  /\ agents' = [agents EXCEPT ![self] = u.agent]
                    /\ result' = <<[self |-> self, other |-> other, changed |-> u.changed]>>
    /\ lastOp' = "updateBelief"
    /\ UNCHANGED <<config, isRunning, isComplete, interactionCount, opinionCounts,
                   opinionHistory, currentPairing, notifications, branch, threw, runs, held,
                   driver>>

SpecAgent == InitAgent /\ [][updateBeliefCall]_vars

\* the step from the unprimed state is a call of updateBelief
Called == lastOp' = "updateBelief"

\* C32: an agent with an empty neighbour list has susceptibility 0 and its
\* belief is unchanged by every call of updateBelief, whatever the other
\* agent is (zealot or not)
C32_LonelyAgentKeepsBelief ==
    [][(Called /\ agents[result'[1].self].neighbors = <<>>) =>
          /\ calculateSusceptibility(agents[result'[1].self], agents)[1] = 0
          /\ agents'[result'[1].self].beliefValue = agents[result'[1].self].beliefValue]_vars

\* C32 as the code has it: an agent with an empty neighbour list has
\* susceptibility 0 and its belief is unchanged by every call of
\* updateBelief whose other agent is not a zealot
C32_LonelyAgentKeepsBeliefNonZealot ==
    [][(/\ Called
        /\ agents[result'[1].self].neighbors = <<>>
        /\ ~agents[result'[1].other].isZealot) =>
          /\ calculateSusceptibility(agents[result'[1].self], agents)[1] = 0
          /\ agents'[result'[1].self].beliefValue = agents[result'[1].self].beliefValue]_vars

\* a non-zealot without neighbours after a call with a non-zealot of a
\* different belief
C32_Witness ==
    /\ lastOp = "updateBelief"
    /\ agents[result[1].self].neighbors = <<>>
    /\ ~agents[result[1].self].isZealot
    /\ ~agents[result[1].other].isZealot
    /\ agents[result[1].other].beliefValue # agents[result[1].self].beliefValue
    /\ Abs(agents[result[1].other].beliefValue) < DEN
    /\ Len(agents[result[1].self].interactionHistory) = 1

----------------------------------------------------------------------------
(* Completion *)

\* C33: in a population of at least 2 agents the pair finder never reports
\* failure: after network construction every agent has at least one
\* neighbour, so a step sets isComplete only through opinion dominance or
\* the interaction cap
C33_PairAlwaysFound ==
    [][(lastOp' = "runInteraction" /\ ~isComplete /\ Len(agents) >= 2) =>
          /\ \A k \in 1 .. Len(agents) : Len(agents[k].neighbors) >= 1
          /\ result' # <<>>
          /\ interactionCount' = interactionCount + 1
          /\ isComplete' =>
                \/ opinionCounts'.red = 0
                \/ opinionCounts'.blue = 0
                \/ interactionCount' >= config.maxInteractions]_vars

\* a red and a blue agent joined only by the forced connection, after an
\* interaction that left the run going
C33_Witness ==
    /\ Stepped
    /\ Len(agents) = 2
    /\ config.homophily = 100
    /\ agents[1].beliefValue < 0
    /\ agents[2].beliefValue >= 0
    /\ ~isComplete

\* C34: if the population contains at least one red zealot and at least one
\* blue zealot, neither opinionCounts.red nor opinionCounts.blue is ever
\* zero, so the run never completes by dominance and completes exactly when
\* interactionCount reaches maxInteractions
C34_ZealotsOfBothSides ==
    (/\ runs > 0
     /\ \E k \in 1 .. Len(agents) : agents[k].isZealot /\ agents[k].beliefValue < 0
     /\ \E k \in 1 .. Len(agents) : agents[k].isZealot /\ agents[k].beliefValue >= 0) =>
        /\ opinionCounts.red > 0
        /\ opinionCounts.blue > 0
        /\ isComplete <=> interactionCount >= config.maxInteractions

\* a red zealot, a blue zealot and a third agent that went over to the red
\* side, in a run that goes on
C34_Witness ==
    /\ Stepped
    /\ Len(agents) = 3
    /\ agents[1].isZealot /\ agents[1].beliefValue < 0
    /\ agents[2].isZealot /\ agents[2].beliefValue >= 0
    /\ ~agents[3].isZealot
    /\ opinionCounts = [red |-> 2, blue |-> 1]
    /\ ~isComplete

\* the number of completion callbacks among the callbacks of the step
\* just taken
CompletionCalls ==
    Cardinality({i \in 1 .. Len(notifications') :
                    notifications'[i].name = "onSimulationComplete"})

\* C35: in every step that changes isComplete from false to true, whatever
\* the cause (dominance, interaction cap or pairing failure), the registered
\* completion callback is invoked exactly once in that step, and it is
\* never invoked in any other step of the run
C35_CompletionNotifiedOnce ==
    [][lastOp' = "runInteraction" =>
          CompletionCalls = (IF ~isComplete /\ isComplete' THEN 1 ELSE 0)]_vars

\* C36: the result record returned by a step is a snapshot: its fields,
\* including currentPairing with its path and opinionCounts, keep the values
\* they had when the step returned and are not changed by any later step
C36_ResultIsSnapshot ==
    [][(held # <<>> /\ lastOp' # "initialize") => held' = held]_vars

\* C37: an update of a non-zealot against a non-zealot partner never moves
\* the agent's belief past or away from the partner's belief: the distance
\* between the agent's new belief and the partner's belief is never larger
\* than the distance before the update
C37_NeverOvershoots ==
    [][Called =>
          LET self == result'[1].self
              other == result'[1].other
              before == agents[self].beliefValue - agents[other].beliefValue
              after == agents'[self].beliefValue - agents[other].beliefValue
          IN  (~agents[self].isZealot /\ ~agents[other].isZealot) =>
                  (IF after < 0 THEN 0 - after ELSE after)
                      <= (IF before < 0 THEN 0 - before ELSE before)]_vars

----------------------------------------------------------------------------
(* The page script: js/main.js *)

\* every variable of the simulation object
simVars ==
    <<config, agents, isRunning, isComplete, interactionCount, opinionCounts,
      opinionHistory, currentPairing, result, notifications, lastOp, branch,
      threw, runs, held>>

\* the delays of the three setTimeout calls, in ms: lines 207-219 and 154-158
Delay(kind) ==
    IF kind = "settle" THEN 2000 ELSE IF kind = "start" THEN 100 ELSE 10

\* setTimeout: a new pending timer
SetTimeout(d, kind) ==
    [d EXCEPT !.timers = @ \cup {[id |-> d.nextId, kind |-> kind]},
              !.nextId = @ + 1]

\* the event loop runs a timer only after every timer that was set before
\* it with a delay no longer than its own
CanFire(d, t) ==
    /\ t \in d.timers
    /\ \A u \in d.timers : ~(u.id < t.id /\ Delay(u.kind) <= Delay(t.kind))

\* lines 176-193: the buttons are given back and the page is not running
simulationComplete(d) ==
    [d EXCEPT !.startDisabled = FALSE, !.stopDisabled = TRUE, !.isRunning = FALSE]

\* lines 148-163
onInteractionComplete(d, complete) ==
    IF ~complete /\ ~d.stopRequested
    THEN [SetTimeout(d, "step") EXCEPT !.nextInteractionTimeout = d.nextId]
    ELSE simulationComplete(d)

\* lines 148-174: the handlers of the page run on the callbacks of one step,
\* in call order
RECURSIVE Handlers(_, _, _)

Handlers(d, notes, complete) ==
    IF notes = <<>> THEN d
    ELSE LET name == Head(notes).name
             after == IF name = "onInteractionComplete"
                      THEN onInteractionComplete(d, complete)
                      ELSE IF name = "onSimulationComplete"
                           THEN simulationComplete(d)
                           ELSE d
         IN  Handlers(after, Tail(notes), complete)

\* lines 223-254: the Stop handler past its early return
StopHandler(d) ==
    LET cleared == IF d.nextInteractionTimeout # 0
                   THEN [d EXCEPT !.timers = {t \in @ : t.id # d.nextInteractionTimeout},
                                  !.nextInteractionTimeout = 0]
                   ELSE d
    IN  [cleared EXCEPT !.stopRequested = TRUE, !.stopDisabled = TRUE,
                        !.startDisabled = FALSE, !.isRunning = FALSE]

\* a click on Start, lines 112-220: a disabled button takes no click
clickStart ==
    /\ ~driver.startDisabled
    /\ ~driver.isRunning
    /\ initialize
    /\ driver' = [SetTimeout(driver, "settle") EXCEPT
                     !.simulation = TRUE, !.stopRequested = FALSE,
                     !.startDisabled = TRUE, !.stopDisabled = FALSE,
                     !.event = "start", !.clicked = FALSE]

\* the 2000 ms timer, lines 207-219: with no simulation, reading
\* simulation.getStatistics throws and the handler ends there
settleFires ==
    \E t \in driver.timers :
        /\ t.kind = "settle"
        /\ CanFire(driver, t)
        /\ LET fired == [driver EXCEPT !.timers = @ \ {t}]
           IN  IF driver.simulation
               THEN /\ getStatistics
                    /\ driver' = [SetTimeout(fired, "start") EXCEPT
                                     !.isRunning = TRUE, !.event = "settle"]
               ELSE /\ driver' = [fired EXCEPT !.event = "settleThrows"]
                    /\ UNCHANGED simVars

\* runInteraction from a timer
StepCall ==
    \/ runInteractionComplete
    \/ runInteractionThrows
    \/ runInteractionNoPair
    \/ runInteractionPair

\* the 100 ms and 10 ms timers, lines 216-218 and 156-158: both call
\* simulation.runInteraction(), which throws when simulation is null
runFires ==
    \E t \in driver.timers :
        /\ t.kind \in {"start", "step"}
        /\ CanFire(driver, t)
        /\ LET fired == [driver EXCEPT !.timers = @ \ {t}]
           IN  IF driver.simulation
               THEN /\ isComplete \/ interactionCount < MaxM
                    /\ StepCall
                    /\ driver' = [Handlers(fired, notifications', isComplete') EXCEPT
                                     !.event = "run"]
               ELSE /\ driver' = [fired EXCEPT !.event = "runThrows"]
                    /\ UNCHANGED simVars

\* a click on Stop, lines 223-254
clickStop ==
    /\ ~driver.stopDisabled
    /\ IF ~driver.isRunning \/ ~driver.simulation
       THEN /\ driver' = [driver EXCEPT !.event = "stop", !.clicked = TRUE]
            /\ UNCHANGED simVars
       ELSE /\ getStatistics
            /\ driver' = [StopHandler(driver) EXCEPT !.event = "stop", !.clicked = TRUE]

\* a click on Reset, lines 257-270: stopButton.click() runs the Stop
\* handler unless the Stop button is disabled
clickReset ==
    LET stops == driver.simulation /\ driver.isRunning /\ ~driver.stopDisabled
        stopped == IF stops THEN StopHandler(driver) ELSE driver
    IN  /\ IF stops THEN getStatistics ELSE UNCHANGED simVars
        /\ driver' = [stopped EXCEPT !.simulation = FALSE, !.event = "reset",
                                     !.clicked = TRUE]

\* the page after loading
InitDriver ==
    /\ config = DriverConfig
    /\ agents = <<>>
    /\ isRunning = FALSE
    /\ isComplete = FALSE
    /\ interactionCount = 0
    /\ opinionCounts = [red |-> 0, blue |-> 0]
    /\ opinionHistory = <<>>
    /\ currentPairing = <<>>
    /\ result = <<>>
    /\ notifications = <<>>
    /\ lastOp = "constructor"
    /\ branch = "none"
    /\ threw = FALSE
    /\ runs = 0
    /\ held = <<>>
    /\ driver = PageLoaded

NextDriver ==
    \/ clickStart
    \/ settleFires
    \/ runFires
    \/ clickStop
    \/ clickReset

SpecDriver == InitDriver /\ [][NextDriver]_vars

\* C38: in the browser driver, once a click on Stop (or Reset) follows a
\* click on Start, no further runInteraction call is executed for that run,
\* whichever timers were pending when the click arrived, including the
\* 2-second settling timer and the 100 ms start timer
C38_StopEndsRun ==
    [][driver.clicked => driver'.event # "run"]_vars

\* C39: in the browser driver, under every interleaving of Start, Stop and
\* Reset clicks with timer firings, at most one timer that will call
\* runInteraction is pending at any time, and a notification handler never
\* calls runInteraction synchronously
C39_OneRunTimer ==
    Cardinality({t \in driver.timers : t.kind \in {"start", "step"}}) <= 1

====
